---- MODULE Spec2Model ----
(***************************************************************************)
(* TextExtract Pro: the extraction workflow of the web client, the         *)
(* extract-text edge function, the history page's delete and the database  *)
(* triggers that keep the per-user aggregate (user_analytics).             *)
(*                                                                         *)
(* Conventions                                                             *)
(*  - a text is a tuple of one-character strings;                          *)
(*  - a confidence is an integer number of hundredths (0.95 is 95);        *)
(*  - average_confidence is an exact fraction [n, d] of hundredths, kept   *)
(*    in lowest terms, so that "equals the mean" is an exact comparison;   *)
(*  - one action is one run-to-completion step of a handler: from the      *)
(*    resumption of an await to the next await (or to the return).         *)
(***************************************************************************)
EXTENDS Integers, Sequences, FiniteSets, TLC

(***************************************************************************)
(* Bounds of the model                                                     *)
(***************************************************************************)
MaxIds == 2        \* extraction rows ever inserted
MaxBatch == 3      \* files in one submitted batch
MaxResults == 1    \* a tab starts no further batch once its list shows this many rows
MaxUploads == 2    \* objects ever stored in the documents bucket
MaxWorkers == 3    \* workers Tesseract.createWorker ever hands out

Sessions == {1, 2}             \* browser tabs of the signed-in user
Revs == {"ocr", "ai"}          \* the two revisions of ExtractPage in the repository
TheUser == "u1"

MaxFileSize == 10 * 1024 * 1024

(***************************************************************************)
(* Exact fractions                                                         *)
(***************************************************************************)
RECURSIVE GCD(_, _)
GCD(a, b) == IF b = 0 THEN a ELSE GCD(b, a % b)

Rat(n, d) == LET g == GCD(n, d) IN IF n = 0 THEN [n |-> 0, d |-> 1] ELSE [n |-> n \div g, d |-> d \div g]

RatEq(a, b) == a.n * b.d = b.n * a.d

(***************************************************************************)
(* Texts                                                                   *)
(***************************************************************************)
IsSpace(c) == c \in {" ", "\n", "\t"}

RECURSIVE TrimLeft(_)
TrimLeft(t) == IF t # <<>> /\ IsSpace(Head(t)) THEN TrimLeft(Tail(t)) ELSE t

RECURSIVE TrimRight(_)
TrimRight(t) == IF t # <<>> /\ IsSpace(t[Len(t)]) THEN TrimRight(SubSeq(t, 1, Len(t) - 1)) ELSE t

\* String.prototype.trim
Trim(t) == TrimRight(TrimLeft(t))

UpperCase == <<"A","B","C","D","E","F","G","H","I","J","K","L","M","N","O","P","Q","R","S","T","U","V","W","X","Y","Z">>
LowerCase == <<"a","b","c","d","e","f","g","h","i","j","k","l","m","n","o","p","q","r","s","t","u","v","w","x","y","z">>
Digits == {"0","1","2","3","4","5","6","7","8","9"}

Lower(c) == IF \E i \in 1..26 : UpperCase[i] = c THEN LowerCase[CHOOSE i \in 1..26 : UpperCase[i] = c] ELSE c

\* \w of a JavaScript regular expression
IsWordChar(c) == c = "_" \/ c \in Digits \/ \E i \in 1..26 : c = UpperCase[i] \/ c = LowerCase[i]

\* number of maximal runs of white space in t
WhitespaceRuns(t) == Cardinality({i \in 1..Len(t) : IsSpace(t[i]) /\ (i = 1 \/ ~IsSpace(t[i - 1]))})

\* text.split(/\s+/).length
WordCount(t) == WhitespaceRuns(t) + 1

Min(a, b) == IF a <= b THEN a ELSE b

\* the decimal digit of a number from 1 to 9
DigitChar == <<"1","2","3","4","5","6","7","8","9">>

\* OpenAIService.calculateConfidence, in hundredths
calculateConfidence(text) ==
  IF text = <<>> \/ Len(text) < 10 THEN 30
  ELSE LET hasStructure == \E i \in 1..Len(text) : text[i] \in {".", "!", "?"}
           hasNumbers == \E i \in 1..Len(text) : text[i] \in Digits
           specialChars == Cardinality({i \in 1..Len(text) : ~IsWordChar(text[i]) /\ ~IsSpace(text[i])})
       IN Min(50 + (IF WordCount(text) > 20 THEN 20 ELSE 0)
                 + (IF hasStructure THEN 15 ELSE 0)
                 + (IF hasNumbers THEN 10 ELSE 0)
                 + (IF specialChars > 5 THEN 5 ELSE 0), 98)

\* String.prototype.toLowerCase
toLowerCase(t) == [i \in 1..Len(t) |-> Lower(t[i])]

\* String.prototype.includes
includes(t, p) == \E i \in 0..(Len(t) - Len(p)) : SubSeq(t, i + 1, i + Len(p)) = p

refusalPatterns ==
  { <<"s","o","r","r","y">>,
    <<"c","a","n","n","o","t">>,
    <<"u","n","a","b","l","e">>,
    <<"n","o","t"," ","a","b","l","e">>,
    <<"c","a","n","'","t">>,
    <<"b","a","s","e","6","4">>,
    <<"d","e","c","o","d","e","r">>,
    <<"a","s"," ","a","n"," ","a","i">>,
    <<"i","'","m"," ","s","o","r","r","y">> }

\* a detector that compares without lower-casing
isRefusalResponseExact(text) == \E p \in refusalPatterns : includes(text, p)

isRefusalResponse(text) == \E p \in refusalPatterns : includes(toLowerCase(text), p)

(***************************************************************************)
(* The database: tables extractions and user_analytics with their triggers *)
(***************************************************************************)
VARIABLES
  extractions,     \* table extractions: a set of rows
  user_analytics,  \* table user_analytics: a set of rows, at most one per user_id
  nextId,          \* the next extraction id (stands for gen_random_uuid())
  uploads,         \* number of objects stored in the documents bucket
  resp,            \* the extract-text edge function's response to the latest request
  enhCall,         \* the latest call of an enhancement client: input, service outcome, result
  aggLog,          \* history: how many updates of the aggregate the database performed for
                   \* creations, and the text lengths they added
  ocr,             \* the tab's OCRService singleton: its worker and its callers in flight
  lastCall         \* the latest call of an API endpoint (its request) or of a service
                   \* function (its inputs and what it returned or threw)

\* everything outside the browser tabs
dbVars == <<extractions, user_analytics, nextId, uploads, resp, enhCall, aggLog, lastCall>>

\* a row that keeps the confidence as a percentage
ExtractionRowPercent(id, user_id, file_name, text, conf) ==
  [id |-> id, user_id |-> user_id, file_name |-> file_name,
   extracted_text |-> text, confidence_score |-> conf * 100]

ExtractionRow(id, user_id, file_name, text, conf) ==
  [id |-> id, user_id |-> user_id, file_name |-> file_name,
   extracted_text |-> text, confidence_score |-> conf]

RowsOf(u) == {r \in extractions : r.user_id = u}

HasAnalytics(u) == \E a \in user_analytics : a.user_id = u

AnalyticsOf(u) == CHOOSE a \in user_analytics : a.user_id = u

RECURSIVE SumConfidence(_)
SumConfidence(rows) ==
  IF rows = {} THEN 0
  ELSE LET r == CHOOSE x \in rows : TRUE IN r.confidence_score + SumConfidence(rows \ {r})

RECURSIVE SumLength(_)
SumLength(rows) ==
  IF rows = {} THEN 0
  ELSE LET r == CHOOSE x \in rows : TRUE IN Len(r.extracted_text) + SumLength(rows \ {r})

\* SELECT AVG(confidence_score) ...; COALESCE(..., 0.0)
AvgConfidence(rows) ==
  IF rows = {} THEN Rat(0, 1) ELSE Rat(SumConfidence(rows), Cardinality(rows))

\* (average_confidence * total_extractions + c) / (total_extractions + 1)
RunningAverage(avg, count, c) == Rat(avg.n * count + c * avg.d, avg.d * (count + 1))

Greatest(a, b) == IF a >= b THEN a ELSE b

\* trigger update_analytics_on_extraction (AFTER INSERT ON extractions)
update_user_analytics_on_extraction(ua, new) ==
  IF \E a \in ua : a.user_id = new.user_id
  THEN { IF a.user_id = new.user_id
         THEN [a EXCEPT !.total_extractions = @ + 1,
                        !.total_files_processed = @ + 1,
                        !.total_text_extracted = @ + Len(new.extracted_text),
                        !.average_confidence =
                           RunningAverage(a.average_confidence, a.total_extractions,
                                          new.confidence_score)]
         ELSE a : a \in ua }
  ELSE ua \cup { [user_id |-> new.user_id,
                  total_extractions |-> 1,
                  total_files_processed |-> 1,
                  total_text_extracted |-> Len(new.extracted_text),
                  average_confidence |-> Rat(new.confidence_score, 1)] }

\* a delete trigger that subtracts without a floor
update_user_analytics_on_extraction_delete_unfloored(ua, old, remaining) ==
  { IF a.user_id = old.user_id
    THEN [a EXCEPT !.total_extractions = @ - 1,
                   !.total_files_processed = @ - 1,
                   !.total_text_extracted = @ - Len(old.extracted_text),
                   !.average_confidence =
                      AvgConfidence({r \in remaining : r.user_id = old.user_id})]
    ELSE a : a \in ua }

\* trigger update_analytics_on_extraction_delete (AFTER DELETE ON extractions);
\* remaining is the table after the row was removed
update_user_analytics_on_extraction_delete(ua, old, remaining) ==
  { IF a.user_id = old.user_id
    THEN [a EXCEPT !.total_extractions = Greatest(0, @ - 1),
                   !.total_files_processed = Greatest(0, @ - 1),
                   !.total_text_extracted = Greatest(0, @ - Len(old.extracted_text)),
                   !.average_confidence =
                      AvgConfidence({r \in remaining : r.user_id = old.user_id})]
    ELSE a : a \in ua }

\* the CHECK constraint of extractions.confidence_score
ConfidenceCheck(conf) == conf >= 0 /\ conf <= 100

Logged(textLength) == [updates |-> aggLog.updates + 1, text |-> aggLog.text + textLength]

(***************************************************************************)
(* The extract page of one browser tab                                     *)
(***************************************************************************)
VARIABLES
  rev,         \* which revision of ExtractPage the tab runs
  pc,          \* where the tab's handleFileSelect is suspended
  submitted,   \* the files argument of the latest handleFileSelect call
  queue,       \* files of the batch not yet started
  cur,         \* the file being processed
  loc,         \* locals of processFile / updateUserAnalytics
  newResults,  \* handleFileSelect's newResults
  results,     \* React state results
  loading,     \* React state loading
  toasts,      \* toasts raised by the latest handleFileSelect call
  rows         \* state of the ExtractionResult components, keyed by index

pageVars == <<rev, pc, submitted, queue, cur, loc, newResults, results, loading, toasts, rows>>

vars == <<extractions, user_analytics, nextId, uploads, resp, enhCall, aggLog, lastCall, ocr,
          rev, pc, submitted, queue, cur, loc, newResults, results, loading, toasts, rows>>

NoFile == [name |-> <<>>, type |-> "none", size |-> 0]
NoLoc == [extractedText |-> <<>>, confidence |-> 0, write |-> [op |-> "none"]]

startsWith(type, prefix) ==
  CASE prefix = "image/" -> type \in {"image/png", "image/jpeg"}
    [] prefix = "text/" -> type \in {"text/plain"}
    [] OTHER -> FALSE

\* `Text extracted from ${file.name} (simulated)`
SimulatedText(name) ==
  <<"T","e","x","t"," ","e","x","t","r","a","c","t","e","d"," ","f","r","o","m"," ">>
  \o name \o <<" ","(","s","i","m","u","l","a","t","e","d",")">>

Throw == [kind |-> "throw"]
Ok(text, conf) == [kind |-> "ok", text |-> text, confidence |-> conf]

\* texts an external service or a file read can deliver
LongText == <<"T","o","t","a","l",":"," ","4","2",".">>
ServiceTexts == { <<>>, <<" ">>, <<"a","b">>, LongText }

\* confidences the OCR engine can report, in hundredths
OcrConfidences == {70, 90}

\* what awaiting the extraction of a file can deliver, by revision
ExtractOutcomes(r, file, texts) ==
  IF r = "ai"
  THEN IF startsWith(file.type, "image/")
       THEN {Throw} \cup {Ok(t, calculateConfidence(t)) : t \in texts}
       ELSE {Throw, Ok(SimulatedText(file.name), 80)}
  ELSE IF file.type = "application/pdf" \/ startsWith(file.type, "image/")
       THEN {Throw} \cup {Ok(t, c) : t \in texts, c \in OcrConfidences}
       ELSE IF startsWith(file.type, "text/")
            THEN {Throw} \cup {Ok(t, 99) : t \in texts}
            ELSE {Throw}

Toast(kind, msg, name) == [kind |-> kind, msg |-> msg, file |-> name]

Result(file, text, conf) == [fileName |-> file.name, extractedText |-> text, confidence |-> conf]

\* useState of a newly mounted ExtractionResult
MountRow(result) ==
  [editedText |-> result.extractedText, enhancedText |-> <<>>, isEnhancing |-> FALSE,
   text |-> <<>>, notice |-> "none"]

\* results.map((result, index) => <ExtractionResult key={index} .../>): the components
\* at the indexes that existed keep their state, the new indexes are mounted
Render(rs, res) == [i \in 1..Len(res) |-> IF i <= Len(rs) THEN rs[i] ELSE MountRow(res[i])]

OversizedInclusive(file) == file.size >= MaxFileSize

\* file => file.size > 10 * 1024 * 1024
Oversized(file) == file.size > MaxFileSize

oversizedFiles(files) == SelectSeq(files, Oversized)

\* a loop that takes up the next file before the outcome of the current one is in
AdvanceEarly(s, nr, ts) ==
  /\ loc' = [loc EXCEPT ![s] = NoLoc]
  /\ IF queue[s] = <<>>
     THEN /\ toasts' = [toasts EXCEPT ![s] = ts]
          /\ results' = [results EXCEPT ![s] = nr \o @]
          /\ rows' = [rows EXCEPT ![s] = Render(@, nr \o results[s])]
          /\ newResults' = [newResults EXCEPT ![s] = <<>>]
          /\ loading' = [loading EXCEPT ![s] = FALSE]
          /\ pc' = [pc EXCEPT ![s] = "idle"]
          /\ cur' = [cur EXCEPT ![s] = NoFile]
          /\ UNCHANGED queue
     ELSE /\ newResults' = [newResults EXCEPT ![s] = nr]
          /\ cur' = [cur EXCEPT ![s] = Head(queue[s])]
          /\ queue' = [queue EXCEPT ![s] = Tail(@)]
          /\ pc' = [pc EXCEPT ![s] = "extract"]
          /\ UNCHANGED <<toasts, results, loading, rows>>

\* the for-loop of handleFileSelect moves on: start the next file or finish the batch
Advance(s, nr, ts) ==
  /\ toasts' = [toasts EXCEPT ![s] = ts]
  /\ loc' = [loc EXCEPT ![s] = NoLoc]
  /\ IF queue[s] = <<>>
     THEN /\ results' = [results EXCEPT ![s] = nr \o @]
          /\ rows' = [rows EXCEPT ![s] = Render(@, nr \o results[s])]
          /\ newResults' = [newResults EXCEPT ![s] = <<>>]
          /\ loading' = [loading EXCEPT ![s] = FALSE]
          /\ pc' = [pc EXCEPT ![s] = "idle"]
          /\ cur' = [cur EXCEPT ![s] = NoFile]
          /\ UNCHANGED queue
     ELSE /\ newResults' = [newResults EXCEPT ![s] = nr]
          /\ cur' = [cur EXCEPT ![s] = Head(queue[s])]
          /\ queue' = [queue EXCEPT ![s] = Tail(@)]
          /\ pc' = [pc EXCEPT ![s] = "extract"]
          /\ UNCHANGED <<results, loading, rows>>

\* a catch that gives up the batch at the first file that fails
FailFileAborts(s, ts, cause) ==
  /\ toasts' = [toasts EXCEPT ![s] =
                  Append(ts, [kind |-> "error", msg |-> "Failed to process",
                              file |-> cur[s].name, cause |-> cause])]
  /\ loc' = [loc EXCEPT ![s] = NoLoc]
  /\ results' = [results EXCEPT ![s] = newResults[s] \o @]
  /\ rows' = [rows EXCEPT ![s] = Render(@, newResults[s] \o results[s])]
  /\ newResults' = [newResults EXCEPT ![s] = <<>>]
  /\ loading' = [loading EXCEPT ![s] = FALSE]
  /\ pc' = [pc EXCEPT ![s] = "idle"]
  /\ cur' = [cur EXCEPT ![s] = NoFile]
  /\ queue' = [queue EXCEPT ![s] = <<>>]

\* processFile threw: the catch of handleFileSelect's loop body; cause is the error
\* caught, which the toast does not show
FailFile(s, ts, cause) ==
  Advance(s, newResults[s],
          Append(ts, [kind |-> "error", msg |-> "Failed to process", file |-> cur[s].name,
                      cause |-> cause]))

\* processFile returned: newResults.push(result); toast.success(...)
FinishFile(s) ==
  Advance(s, Append(newResults[s], Result(cur[s], loc[s].extractedText, loc[s].confidence)),
          Append(toasts[s], Toast("success", "Successfully extracted text from", cur[s].name)))

\* an upload control that stays enabled while a batch is in progress
handleFileSelectEnabled(s, files) ==
  /\ UNCHANGED <<dbVars, ocr, rev, loc, results, rows>>
  /\ submitted' = [submitted EXCEPT ![s] = files]
  /\ IF Len(files) = 0
     THEN /\ toasts' = [toasts EXCEPT ![s] = <<Toast("error", "No files selected", <<>>)>>]
          /\ UNCHANGED <<pc, queue, cur, newResults, loading>>
     ELSE IF Len(oversizedFiles(files)) > 0
     THEN /\ toasts' = [toasts EXCEPT ![s] = <<Toast("error", "Files too large", <<>>)>>]
          /\ UNCHANGED <<pc, queue, cur, newResults, loading>>
     ELSE /\ loading' = [loading EXCEPT ![s] = TRUE]
          /\ newResults' = [newResults EXCEPT ![s] = <<>>]
          /\ toasts' = [toasts EXCEPT ![s] = <<>>]
          /\ cur' = [cur EXCEPT ![s] = Head(files)]
          /\ queue' = [queue EXCEPT ![s] = Tail(files)]
          /\ pc' = [pc EXCEPT ![s] = "extract"]

\* ExtractPage.handleFileSelect up to its first await. The upload control is disabled
\* while loading. (Revision "ai" renders the control only when an API key is set, so
\* its `!openaiApiKey` return is never taken.)
handleFileSelect(s, files) ==
  /\ pc[s] = "idle"
  /\ ~loading[s]
  /\ UNCHANGED <<dbVars, ocr, rev, loc, results, rows>>
  /\ submitted' = [submitted EXCEPT ![s] = files]
  /\ IF Len(files) = 0
     THEN /\ toasts' = [toasts EXCEPT ![s] = <<Toast("error", "No files selected", <<>>)>>]
          /\ UNCHANGED <<pc, queue, cur, newResults, loading>>
     ELSE IF Len(oversizedFiles(files)) > 0
     THEN /\ toasts' = [toasts EXCEPT ![s] = <<Toast("error", "Files too large", <<>>)>>]
          /\ UNCHANGED <<pc, queue, cur, newResults, loading>>
     ELSE /\ loading' = [loading EXCEPT ![s] = TRUE]
          /\ newResults' = [newResults EXCEPT ![s] = <<>>]
          /\ toasts' = [toasts EXCEPT ![s] = <<>>]
          /\ cur' = [cur EXCEPT ![s] = Head(files)]
          /\ queue' = [queue EXCEPT ![s] = Tail(files)]
          /\ pc' = [pc EXCEPT ![s] = "extract"]

Suspend(s, at, l) ==
  /\ pc' = [pc EXCEPT ![s] = at]
  /\ loc' = [loc EXCEPT ![s] = l]
  /\ UNCHANGED <<queue, cur, newResults, results, loading, toasts, rows>>

\* processFile resumes from the extraction call.
\* Revision "ocr" (src/pages/ExtractPage.tsx): the page is rendered only for a signed-in
\* user, so `if (user)` is taken, and `this` is undefined inside the arrow function of
\* the function component: evaluating this.saveExtractionToDatabase raises a TypeError,
\* which the outer catch rethrows.
\* Revision "ai": the upload to the documents bucket is started.
ExtractReturn(s, out) ==
  /\ pc[s] = "extract"
  /\ out \in ExtractOutcomes(rev[s], cur[s], ServiceTexts)
  /\ UNCHANGED <<dbVars, ocr, rev, submitted>>
  /\ IF out.kind = "throw"
     THEN FailFile(s, toasts[s], IF rev[s] = "ocr" THEN "OCR extraction failed" ELSE "extraction failed")
     ELSE IF rev[s] = "ocr"
          THEN LET ts == Append(toasts[s], Toast("success", "OCR completed for", cur[s].name))
               IN IF out.text = <<>> \/ Len(Trim(out.text)) = 0
                  THEN FailFile(s, ts, "No text could be extracted from this document")
                  ELSE FailFile(s, ts, "TypeError: this is undefined")
          ELSE Suspend(s, "upload", [NoLoc EXCEPT !.extractedText = out.text,
                                                  !.confidence = out.confidence])

DbOutcomes == {"ok", "error", "throw"}

\* supabase.storage.from('documents').upload(...) returns
UploadReturn(s, out) ==
  /\ pc[s] = "upload"
  /\ out \in DbOutcomes
  /\ out = "ok" => uploads < MaxUploads
  /\ UNCHANGED <<extractions, user_analytics, nextId, resp, lastCall, ocr, enhCall, aggLog, rev, submitted>>
  /\ uploads' = IF out = "ok" THEN uploads + 1 ELSE uploads
  /\ CASE out = "ok" -> Suspend(s, "insert", loc[s])
       [] out = "error" -> FinishFile(s)
       [] out = "throw" -> FailFile(s, toasts[s], "upload threw")

\* supabase.from('extractions').insert(...) returns; the row and the insert trigger's
\* update of user_analytics are one transaction
InsertReturn(s, out) ==
  /\ pc[s] = "insert"
  /\ out \in DbOutcomes
  /\ out = "ok" => nextId <= MaxIds /\ ConfidenceCheck(loc[s].confidence)
  /\ UNCHANGED <<uploads, resp, lastCall, ocr, enhCall, rev, submitted>>
  /\ IF out = "ok"
     THEN LET row == ExtractionRow(nextId, TheUser, cur[s].name, loc[s].extractedText,
                                   loc[s].confidence)
          IN /\ extractions' = extractions \cup {row}
             /\ user_analytics' = update_user_analytics_on_extraction(user_analytics, row)
             /\ nextId' = nextId + 1
             /\ aggLog' = Logged(Len(row.extracted_text))
     ELSE UNCHANGED <<extractions, user_analytics, nextId, aggLog>>
  /\ IF out = "throw"
     THEN FailFile(s, toasts[s], "insert threw")
     ELSE Suspend(s, "ua_read", loc[s])

\* the write updateUserAnalytics issues after reading existingAnalytics
AnalyticsWrite(existing, userId, textLength, confidence) ==
  IF existing # {}
  THEN LET e == CHOOSE a \in existing : TRUE
       IN [op |-> "update",
           user_id |-> userId,
           total_extractions |-> e.total_extractions + 1,
           total_files_processed |-> e.total_files_processed + 1,
           total_text_extracted |-> e.total_text_extracted + textLength,
           average_confidence |->
              RunningAverage(e.average_confidence, e.total_extractions, confidence)]
  ELSE [op |-> "insert",
        user_id |-> userId,
        total_extractions |-> 1,
        total_files_processed |-> 1,
        total_text_extracted |-> textLength,
        average_confidence |-> Rat(confidence, 1)]

AnalyticsRowOf(w) ==
  [user_id |-> w.user_id,
   total_extractions |-> w.total_extractions,
   total_files_processed |-> w.total_files_processed,
   total_text_extracted |-> w.total_text_extracted,
   average_confidence |-> w.average_confidence]

\* what the database does with that write: an update replaces the user's row, an insert
\* is refused by the UNIQUE constraint on user_id when the user has a row
ApplyAnalyticsWrite(ua, w) ==
  IF w.op = "update"
  THEN {IF a.user_id = w.user_id THEN AnalyticsRowOf(w) ELSE a : a \in ua}
  ELSE IF \E a \in ua : a.user_id = w.user_id THEN ua ELSE ua \cup {AnalyticsRowOf(w)}

\* updateUserAnalytics resumes from .select('*').eq('user_id', userId).single()
UAReadReturn(s, out) ==
  /\ pc[s] = "ua_read"
  /\ out \in DbOutcomes
  /\ UNCHANGED <<dbVars, ocr, rev, submitted>>
  /\ IF out = "throw"
     THEN FinishFile(s)
     ELSE LET existing == IF out = "ok" THEN {a \in user_analytics : a.user_id = TheUser} ELSE {}
          IN Suspend(s, "ua_write",
                     [loc[s] EXCEPT !.write = AnalyticsWrite(existing, TheUser,
                                                 Len(loc[s].extractedText), loc[s].confidence)])

\* updateUserAnalytics resumes from its update or insert; processFile returns
UAWriteReturn(s, out) ==
  /\ pc[s] = "ua_write"
  /\ out \in DbOutcomes
  /\ out = "ok" => ~(loc[s].write.op = "insert" /\ HasAnalytics(loc[s].write.user_id))
  /\ UNCHANGED <<extractions, nextId, uploads, resp, lastCall, ocr, enhCall, rev, submitted>>
  /\ user_analytics' = IF out = "ok" THEN ApplyAnalyticsWrite(user_analytics, loc[s].write)
                       ELSE user_analytics
  /\ aggLog' = IF out = "ok" THEN Logged(Len(loc[s].extractedText)) ELSE aggLog
  /\ FinishFile(s)

(***************************************************************************)
(* The history page                                                        *)
(***************************************************************************)
\* HistoryPage.deleteExtraction: supabase.from('extractions').delete().eq('id', id);
\* the delete trigger runs once for the row removed, in the same transaction
deleteExtraction(id) ==
  /\ \E r \in extractions : r.id = id
  /\ UNCHANGED <<nextId, uploads, resp, lastCall, ocr, enhCall, aggLog, pageVars>>
  /\ LET old == CHOOSE r \in extractions : r.id = id
         remaining == extractions \ {old}
     IN /\ extractions' = remaining
        /\ user_analytics' =
             update_user_analytics_on_extraction_delete(user_analytics, old, remaining)

(***************************************************************************)
(* Enhancement                                                             *)
(***************************************************************************)
RefusalText == <<"I","'","m"," ","s","o","r","r","y">>

\* what a call of the completion service can deliver: the fetch throws, the status is
\* not a success, or a completion with the given content
NetOutcomes(texts) ==
  {[kind |-> "throw"], [kind |-> "not_ok"]} \cup {[kind |-> "ok", content |-> t] : t \in texts}

NoNet == [kind |-> "none"]

EnhanceTexts == ServiceTexts \cup {RefusalText}

\* a client that reports a failed call like a refusal
enhanceExtractedTextFlat(text, net) ==
  IF net.kind = "ok" /\ ~isRefusalResponse(IF net.content # <<>> THEN net.content ELSE text)
  THEN [enhancedText |-> IF net.content # <<>> THEN net.content ELSE text, confidence |-> 95]
  ELSE [enhancedText |-> text, confidence |-> 80]

\* OpenAIService.enhanceExtractedText (src/lib/openai.ts); net is what its fetch delivers
\* (not consulted when the text is rejected before the call)
enhanceExtractedText(text, net) ==
  IF text = <<>> \/ Len(Trim(text)) = 0
  THEN [enhancedText |-> text, confidence |-> 70]
  ELSE IF net.kind # "ok"
  THEN [enhancedText |-> text, confidence |-> 70]
  ELSE LET enhancedText == IF net.content # <<>> THEN net.content ELSE text
       IN IF isRefusalResponse(enhancedText)
          THEN [enhancedText |-> text, confidence |-> 80]
          ELSE [enhancedText |-> enhancedText, confidence |-> 95]

\* OpenAIService.enhanceText of the extract-text edge function
enhanceText(text, net) ==
  IF net.kind = "ok"
  THEN [enhancedText |-> IF net.content # <<>> THEN net.content ELSE text, confidence |-> 95]
  ELSE [enhancedText |-> text, confidence |-> 70]

EnhCall(client, text, net, result) ==
  [client |-> client, text |-> text, net |-> net, result |-> result]

ApiKeys == {"", "sk"}

SetRow(s, i, r) == rows' = [rows EXCEPT ![s][i] = r]

\* the argument handleEnhanceText passes to enhanceExtractedText
EnhanceArgument(r, text) == IF r = "ocr" THEN Trim(text) ELSE text

\* what handleEnhanceText makes of the client's result: the text it returns, or
\* <<"throw">> when it throws
handleEnhanceTextResult(r, text, result) ==
  IF r = "ocr" /\ (result.enhancedText = <<>> \/ result.enhancedText = text)
  THEN [kind |-> "throw"]
  ELSE [kind |-> "ok", text |-> result.enhancedText]

\* ExtractionResult.handleEnhance settles: setEnhancedText and a success toast, or an
\* error toast; finally setIsEnhancing(false)
SettleEnhance(s, i, outcome) ==
  IF outcome.kind = "ok"
  THEN SetRow(s, i, [rows[s][i] EXCEPT !.enhancedText = outcome.text, !.isEnhancing = FALSE,
                                       !.notice = "success"])
  ELSE SetRow(s, i, [rows[s][i] EXCEPT !.isEnhancing = FALSE, !.notice = "error"])

\* ExtractionResult.handleEnhance -> ExtractPage.handleEnhanceText, up to the fetch of
\* enhanceExtractedText; key is the API key of the app context
handleEnhance(s, i, key) ==
  /\ i \in 1..Len(rows[s])
  /\ ~rows[s][i].isEnhancing
  /\ key \in ApiKeys
  /\ rev[s] = "ai" => key # ""
  /\ UNCHANGED <<extractions, user_analytics, nextId, uploads, resp, lastCall, ocr, aggLog,
                 rev, pc, submitted, queue, cur, loc, newResults, results, loading, toasts>>
  /\ LET text == rows[s][i].editedText
     IN IF rev[s] = "ocr" /\ (key = "" \/ text = <<>> \/ Len(Trim(text)) = 0)
        THEN /\ SettleEnhance(s, i, [kind |-> "throw"])
             /\ UNCHANGED enhCall
        ELSE IF text = <<>> \/ Len(Trim(text)) = 0
        THEN LET result == enhanceExtractedText(text, NoNet)
             IN /\ SettleEnhance(s, i, handleEnhanceTextResult(rev[s], text, result))
                /\ enhCall' = EnhCall("page", text, NoNet, result)
        ELSE /\ SetRow(s, i, [rows[s][i] EXCEPT !.isEnhancing = TRUE, !.text = text,
                                               !.notice = "none"])
             /\ UNCHANGED enhCall

\* enhanceExtractedText resumes from its fetch; handleEnhanceText and handleEnhance finish
EnhanceReturn(s, i, net) ==
  /\ i \in 1..Len(rows[s])
  /\ rows[s][i].isEnhancing
  /\ net \in NetOutcomes(EnhanceTexts)
  /\ UNCHANGED <<extractions, user_analytics, nextId, uploads, resp, lastCall, ocr, aggLog,
                 rev, pc, submitted, queue, cur, loc, newResults, results, loading, toasts>>
  /\ LET text == rows[s][i].text
         arg == EnhanceArgument(rev[s], text)
         result == enhanceExtractedText(arg, net)
     IN /\ enhCall' = EnhCall("page", arg, net, result)
        /\ SettleEnhance(s, i, handleEnhanceTextResult(rev[s], text, result))

\* the user edits the text of a result (the textarea's onChange)
setEditedText(s, i, text) ==
  /\ i \in 1..Len(rows[s])
  /\ rows[s][i].editedText # text
  /\ SetRow(s, i, [rows[s][i] EXCEPT !.editedText = text])
  /\ UNCHANGED <<dbVars, ocr, rev, pc, submitted, queue, cur, loc, newResults, results,
                 loading, toasts>>

(***************************************************************************)
(* The extract-text edge function                                          *)
(***************************************************************************)
NoResp == [status |-> 0]

ErrorResponse(status, error) == [status |-> status, success |-> FALSE, error |-> error]

\* extraction_id 0 stands for an absent extraction_id
SuccessResponse(text, conf, file_name, extraction_id) ==
  [status |-> 200, success |-> TRUE,
   data |-> [extracted_text |-> text, confidence_score |-> conf, file_name |-> file_name,
             extraction_id |-> extraction_id]]

Max(a, b) == IF a >= b THEN a ELSE b

Methods == {"OPTIONS", "GET", "POST"}

\* the Authorization header: absent, or the session token of the user
Credentials == {"", "jwt"}

\* request bodies; <<>> and "" stand for a missing field
Requests ==
  [method : Methods,
   authorization : Credentials,
   file_data : {<<>>, <<"d">>},
   file_name : {<<"a">>},
   file_type : {"", "image/png", "application/pdf"},
   openai_api_key : ApiKeys,
   user_id : {"", TheUser},
   enhance_text : BOOLEAN]

\* a handler that reports its failures in the body of a 200 response
RejectAsOk(status, error) ==
  /\ resp' = ErrorResponse(200, error)
  /\ UNCHANGED <<extractions, user_analytics, nextId, enhCall, aggLog>>

\* the handler from `if (user_id)` to the 200 response; ins is what the insert delivers
ExtractTextSave(req, text, conf, ins) ==
  /\ ins \in DbOutcomes
  /\ req.user_id = "" => ins = "error"
  /\ ins = "ok" => nextId <= MaxIds /\ ConfidenceCheck(conf)
  /\ IF req.user_id # "" /\ ins = "ok"
     THEN LET row == ExtractionRow(nextId, req.user_id, req.file_name, text, conf)
          IN /\ extractions' = extractions \cup {row}
             /\ user_analytics' = update_user_analytics_on_extraction(user_analytics, row)
             /\ nextId' = nextId + 1
             /\ resp' = SuccessResponse(text, conf, req.file_name, row.id)
             /\ aggLog' = Logged(Len(text))
     ELSE /\ UNCHANGED <<extractions, user_analytics, nextId, aggLog>>
          /\ resp' = SuccessResponse(text, conf, req.file_name, 0)

Reject(status, error) ==
  /\ resp' = ErrorResponse(status, error)
  /\ UNCHANGED <<extractions, user_analytics, nextId, enhCall, aggLog>>

\* Deno.serve handler of extract-text; ext, net and ins are what the extraction call,
\* the enhancement call and the insert deliver when the handler gets to them
extractTextHandler(req, ext, net, ins) ==
  /\ req \in Requests
  /\ ext \in NetOutcomes(ServiceTexts)
  /\ net \in NetOutcomes(EnhanceTexts)
  /\ UNCHANGED <<uploads, ocr, pageVars>>
  /\ lastCall' = [fn |-> "extract-text", req |-> req]
  /\ IF req.method = "OPTIONS"
     THEN /\ resp' = [status |-> 200]
          /\ UNCHANGED <<extractions, user_analytics, nextId, enhCall, aggLog>>
     ELSE IF req.method # "POST"
     THEN Reject(405, "Method not allowed")
     ELSE IF req.file_data = <<>> \/ req.file_name = <<>> \/ req.file_type = ""
     THEN Reject(400, "Missing required fields: file_data, file_name, file_type")
     ELSE IF ~startsWith(req.file_type, "image/")
     THEN Reject(400, "Document parsing not yet implemented. Currently only supports image files.")
     ELSE IF req.openai_api_key = ""
     THEN Reject(400, "OpenAI API key required for image text extraction")
     ELSE IF ext.kind # "ok"
     THEN Reject(500, "OpenAI API error")
     ELSE LET text == ext.content
              conf == calculateConfidence(text)
          IN IF req.enhance_text /\ text # <<>>
             THEN LET enhanced == enhanceText(text, net)
                  IN /\ enhCall' = EnhCall("edge", text, net, enhanced)
                     /\ ExtractTextSave(req, enhanced.enhancedText,
                                        Max(conf, enhanced.confidence), ins)
             ELSE /\ UNCHANGED enhCall
                  /\ ExtractTextSave(req, text, conf, ins)

QueryMethods == Methods \cup {"DELETE"}

\* requests of get-extractions and get-analytics (query parameters of a GET, body of a
\* POST); malformed is a POST body that is not JSON; limit and offset keep their defaults
QueryRequests ==
  [method : QueryMethods, authorization : Credentials, user_id : {"", TheUser},
   malformed : BOOLEAN]

\* the steps both query handlers take before they reach the database
QueryPrologue(req) ==
  IF req.method \notin {"GET", "POST"}
  THEN [status |-> 405, error |-> "Method not allowed"]
  ELSE IF req.method = "POST" /\ req.malformed
  THEN [status |-> 500, error |-> "Unexpected end of JSON input"]
  ELSE IF req.user_id = ""
  THEN [status |-> 400, error |-> "Missing required field: user_id"]
  ELSE [status |-> 200]

\* Deno.serve handler of get-extractions; q is what the query delivers
getExtractionsHandler(req, q) ==
  /\ req \in QueryRequests
  /\ q \in DbOutcomes
  /\ UNCHANGED <<uploads, ocr, pageVars>>
  /\ lastCall' = [fn |-> "get-extractions", req |-> req]
  /\ IF req.method = "OPTIONS"
     THEN /\ resp' = [status |-> 200]
          /\ UNCHANGED <<extractions, user_analytics, nextId, enhCall, aggLog>>
     ELSE IF QueryPrologue(req).status # 200
     THEN Reject(QueryPrologue(req).status, QueryPrologue(req).error)
     ELSE IF q = "throw"
     THEN Reject(500, "fetch failed")
     ELSE IF q = "error"
     THEN Reject(500, "Failed to fetch extractions")
     ELSE /\ resp' = [status |-> 200, success |-> TRUE,
                      data |-> [extractions |-> RowsOf(req.user_id),
                                total |-> Cardinality(RowsOf(req.user_id)),
                                page |-> 1, limit |-> 10]]
          /\ UNCHANGED <<extractions, user_analytics, nextId, enhCall, aggLog>>

\* user_analytics of a user without a row, as get-analytics reports it
NoAnalytics ==
  [total_extractions |-> 0, total_files_processed |-> 0, total_text_extracted |-> 0,
   average_confidence |-> Rat(0, 1)]

\* a distribution whose middle bucket leaves out its lower edge
ConfidenceDistributionOpen(rs) ==
  [high |-> Cardinality({r \in rs : r.confidence_score >= 80}),
   medium |-> Cardinality({r \in rs : r.confidence_score > 60 /\ r.confidence_score < 80}),
   low |-> Cardinality({r \in rs : r.confidence_score < 60})]

\* confidence_distribution of get-analytics
ConfidenceDistribution(rs) ==
  [high |-> Cardinality({r \in rs : r.confidence_score >= 80}),
   medium |-> Cardinality({r \in rs : r.confidence_score >= 60 /\ r.confidence_score < 80}),
   low |-> Cardinality({r \in rs : r.confidence_score < 60})]

\* daily_extractions of get-analytics: one entry for each of the last 7 days, the last
\* being today; the records of the model are all created today
DailyExtractions(rs) == [i \in 1..7 |-> IF i = 7 THEN Cardinality(rs) ELSE 0]

\* data of the 200 response of get-analytics, from the user's aggregate row and records
AnalyticsData(userAnalytics, rs) ==
  [user_analytics |-> userAnalytics,
   daily_extractions |-> DailyExtractions(rs),
   confidence_distribution |-> ConfidenceDistribution(rs)]

\* Deno.serve handler of get-analytics; ua and q are what the read of user_analytics
\* and the query of extractions deliver
getAnalyticsHandler(req, ua, q) ==
  /\ req \in QueryRequests
  /\ ua \in {"ok", "error"}
  /\ q \in DbOutcomes
  /\ UNCHANGED <<uploads, ocr, pageVars>>
  /\ lastCall' = [fn |-> "get-analytics", req |-> req]
  /\ IF req.method = "OPTIONS"
     THEN /\ resp' = [status |-> 200]
          /\ UNCHANGED <<extractions, user_analytics, nextId, enhCall, aggLog>>
     ELSE IF QueryPrologue(req).status # 200
     THEN Reject(QueryPrologue(req).status, QueryPrologue(req).error)
     ELSE IF q = "throw"
     THEN Reject(500, "fetch failed")
     ELSE IF q = "error"
     THEN Reject(500, "Failed to fetch extractions data")
     ELSE /\ resp' = [status |-> 200, success |-> TRUE,
                      data |-> AnalyticsData(IF ua = "ok" /\ HasAnalytics(req.user_id)
                                            THEN AnalyticsOf(req.user_id) ELSE NoAnalytics,
                                            RowsOf(req.user_id))]
          /\ UNCHANGED <<extractions, user_analytics, nextId, enhCall, aggLog>>

(***************************************************************************)
(* The OpenAI client's extraction functions (src/lib/openai.ts)            *)
(***************************************************************************)
\* what a function call ends with; fetches counts the requests it issued
Thrown(error, fetches) == [kind |-> "throw", error |-> error, fetches |-> fetches]

Returned(text, conf, fetches) ==
  [kind |-> "ok", text |-> text, confidence |-> conf, fetches |-> fetches]

\* a check that takes a key of white space for a key
KeyMissingNoTrim(key) == key = <<>>

\* !this.apiKey || this.apiKey.trim() === ''
KeyMissing(key) == key = <<>> \/ Trim(key) = <<>>

\* /[:\-\|]/
IsFormatting(c) == c \in {":", "-", "|"}

\* a heuristic that rates a short text by the type of its file
calculateDocumentConfidenceTyped(text, fileType) ==
  IF text = <<>> \/ Len(text) < 10
  THEN 30 + (IF fileType = "application/pdf" THEN 10 ELSE 0)
  ELSE 60

\* OpenAIService.calculateDocumentConfidence, in hundredths
calculateDocumentConfidence(text, fileType) ==
  IF text = <<>> \/ Len(text) < 10 THEN 30
  ELSE LET hasStructure == \E i \in 1..Len(text) : text[i] \in {".", "!", "?"}
           hasNumbers == \E i \in 1..Len(text) : text[i] \in Digits
           hasFormatting == \E i \in 1..Len(text) : IsFormatting(text[i])
       IN Min(60 + (IF WordCount(text) > 50 THEN 15 ELSE 0)
                 + (IF hasStructure THEN 10 ELSE 0)
                 + (IF hasNumbers THEN 5 ELSE 0)
                 + (IF hasFormatting THEN 5 ELSE 0)
                 + (IF fileType = "application/pdf" THEN 10 ELSE 0)
                 + (IF startsWith(fileType, "text/") THEN 20 ELSE 0), 95)

\* OpenAIService.extractTextFromImage; net is what its fetch delivers
extractTextFromImage(key, net) ==
  IF KeyMissing(key) THEN Thrown("OpenAI API key is not configured", 0)
  ELSE IF net.kind = "throw" THEN Thrown("fetch failed", 1)
  ELSE IF net.kind = "not_ok" THEN Thrown("OpenAI API error", 1)
  ELSE Returned(net.content, calculateConfidence(net.content), 1)

\* 'Unable to extract text from this document type'
UnableText ==
  <<"U","n","a","b","l","e"," ","t","o"," ","e","x","t","r","a","c","t"," ","t","e","x","t"," ",
    "f","r","o","m"," ","t","h","i","s"," ","d","o","c","u","m","e","n","t"," ","t","y","p","e">>

\* an alternative method that asks once more when it is refused as well
extractWithAlternativeMethodAgain(net, before) ==
  IF net.kind = "throw" THEN Thrown("fetch failed", before + 1)
  ELSE IF net.kind = "not_ok" THEN Thrown("TypeError: data.choices is undefined", before + 1)
  ELSE IF isRefusalResponse(net.content) THEN Returned(net.content, 70, before + 2)
  ELSE Returned(IF net.content # <<>> THEN net.content ELSE UnableText, 70, before + 1)

\* OpenAIService.extractWithAlternativeMethod; before is the number of requests already
\* issued. The status of the response is not looked at: the body of an error response
\* has no choices, so data.choices[0] raises a TypeError.
extractWithAlternativeMethod(net, before) ==
  IF net.kind = "throw" THEN Thrown("fetch failed", before + 1)
  ELSE IF net.kind = "not_ok" THEN Thrown("TypeError: data.choices is undefined", before + 1)
  ELSE Returned(IF net.content # <<>> THEN net.content ELSE UnableText, 70, before + 1)

\* OpenAIService.extractTextFromDocument; net and retry are what the first fetch and the
\* fetch of the alternative method deliver
extractTextFromDocument(key, fileType, net, retry) ==
  IF KeyMissing(key) THEN Thrown("OpenAI API key is not configured", 0)
  ELSE IF net.kind = "throw" THEN Thrown("fetch failed", 1)
  ELSE IF net.kind = "not_ok" THEN Thrown("OpenAI API error", 1)
  ELSE IF net.content = <<>> \/ Len(Trim(net.content)) = 0
  THEN Thrown("No text could be extracted from this document", 1)
  ELSE IF isRefusalResponse(net.content)
  THEN extractWithAlternativeMethod(retry, 1)
  ELSE Returned(net.content, calculateDocumentConfidence(net.content, fileType), 1)

(***************************************************************************)
(* The local OCR service (OCRService)                                      *)
(***************************************************************************)
\* what a call of the OCR service ends with; route is the branch of the dispatch taken,
\* engineCalls the number of recognize calls made; confidences are exact fractions of
\* hundredths
OcrThrown(error, route, calls) ==
  [kind |-> "throw", error |-> error, route |-> route, engineCalls |-> calls]

OcrReturned(text, conf, route, calls) ==
  [kind |-> "ok", text |-> text, confidence |-> conf, route |-> route, engineCalls |-> calls]

\* what tesseractWorker.recognize can deliver: it throws, or data.text with
\* data.confidence (0..100)
EngineOutcomes(texts, confs) ==
  {[kind |-> "throw"]} \cup {[kind |-> "ok", text |-> t, confidence |-> c] : t \in texts, c \in confs}

\* OCRService.extractTextFromImage
ocrExtractTextFromImage(engine) ==
  IF engine.kind = "throw"
  THEN OcrThrown("Failed to extract text with OCR", "image", 1)
  ELSE OcrReturned(engine.text, Rat(engine.confidence, 1), "image", 1)

\* `\n--- Page ${pageNum} ---\n${data.text}\n`
PageBlock(pageNum, text) ==
  <<"\n","-","-","-"," ","P","a","g","e"," ", DigitChar[pageNum], " ","-","-","-","\n">>
  \o text \o <<"\n">>

\* fullText and totalConfidence after the first n pages
RECURSIVE FullText(_, _)
FullText(pages, n) ==
  IF n = 0 THEN <<>> ELSE FullText(pages, n - 1) \o PageBlock(n, pages[n].text)

RECURSIVE TotalConfidence(_, _)
TotalConfidence(pages, n) ==
  IF n = 0 THEN 0 ELSE TotalConfidence(pages, n - 1) + pages[n].confidence

\* OCRService.extractTextFromPDF; pdf is what getDocument delivers: it throws, or a
\* document whose pages the engine is run on one after the other
extractTextFromPDF(pdf) ==
  IF pdf.kind = "throw"
  THEN OcrThrown("Failed to extract text from PDF with OCR", "pdf", 0)
  ELSE LET pages == pdf.pages
           failing == {i \in 1..Len(pages) : pages[i].kind = "throw"}
       IN IF failing # {}
          THEN OcrThrown("Failed to extract text from PDF with OCR", "pdf",
                         CHOOSE i \in failing : \A j \in failing : i <= j)
          ELSE OcrReturned(Trim(FullText(pages, Len(pages))),
                           IF Len(pages) > 0
                           THEN Rat(TotalConfidence(pages, Len(pages)), Len(pages))
                           ELSE Rat(0, 1),
                           "pdf", Len(pages))

\* a dispatch that hands the Word types to the engine
ocrExtractTextFromDocumentWord(type, pdf, engine, read) ==
  IF type = "application/pdf" THEN extractTextFromPDF(pdf)
  ELSE IF startsWith(type, "text/") /\ read.kind = "ok"
  THEN OcrReturned(read.text, Rat(99, 1), "text", 0)
  ELSE ocrExtractTextFromImage(engine)

\* OCRService.extractTextFromDocument; read is what file.text() delivers, pdf and engine
\* what getDocument and recognize deliver
ocrExtractTextFromDocument(type, pdf, engine, read) ==
  IF type = "application/pdf" THEN extractTextFromPDF(pdf)
  ELSE IF startsWith(type, "image/") THEN ocrExtractTextFromImage(engine)
  ELSE IF startsWith(type, "text/")
  THEN IF read.kind = "throw"
       THEN OcrThrown("file.text() failed", "text", 0)
       ELSE OcrReturned(read.text, Rat(99, 1), "text", 0)
  ELSE OcrThrown("Unsupported file type", "none", 0)

\* The worker of the singleton (OCRService.getInstance() hands every caller the one
\* instance). A worker is a number from 1, 0 stands for null. A caller of
\* extractTextFromImage is idle, awaits Tesseract.createWorker inside initializeWorker
\* ("creating"), has initializeWorker behind it ("ready"), or awaits recognize.
Callers == {1, 2}

NoWorker ==
  [tesseractWorker |-> 0,
   at |-> [c \in Callers |-> "idle"],
   cleanup |-> "idle",
   workers |-> 0,            \* workers created so far
   created |-> 0,            \* workers created since the latest call of cleanup()
   terminated |-> {},        \* workers on which terminate() was called
   onTerminated |-> FALSE]   \* recognize was called on one of those

everythingButOcr ==
  <<extractions, user_analytics, nextId, uploads, resp, enhCall, aggLog, lastCall, pageVars>>

\* extractTextFromImage up to the await inside initializeWorker
callExtractTextFromImage(c) ==
  /\ ocr.at[c] = "idle"
  /\ UNCHANGED everythingButOcr
  /\ ocr' = [ocr EXCEPT !.at[c] = IF ocr.tesseractWorker = 0 THEN "creating" ELSE "ready"]

\* initializeWorker resumes from Tesseract.createWorker and assigns the worker
createWorkerReturn(c, out) ==
  /\ ocr.at[c] = "creating"
  /\ out \in {"ok", "throw"}
  /\ out = "ok" => ocr.workers < MaxWorkers
  /\ UNCHANGED everythingButOcr
  /\ ocr' = IF out = "ok"
            THEN [ocr EXCEPT !.tesseractWorker = ocr.workers + 1,
                             !.workers = @ + 1,
                             !.created = @ + 1,
                             !.at[c] = "ready"]
            ELSE [ocr EXCEPT !.at[c] = "idle"]

\* extractTextFromImage resumes from initializeWorker and calls recognize
recognize(c) ==
  /\ ocr.at[c] = "ready"
  /\ UNCHANGED everythingButOcr
  /\ ocr' = IF ocr.tesseractWorker = 0
            THEN [ocr EXCEPT !.at[c] = "idle"]
            ELSE [ocr EXCEPT !.at[c] = "recognizing",
                             !.onTerminated = @ \/ ocr.tesseractWorker \in ocr.terminated]

\* recognize returns or throws; extractTextFromImage returns or throws
recognizeReturn(c) ==
  /\ ocr.at[c] = "recognizing"
  /\ UNCHANGED everythingButOcr
  /\ ocr' = [ocr EXCEPT !.at[c] = "idle"]

\* cleanup up to its await of terminate()
cleanup ==
  /\ ocr.cleanup = "idle"
  /\ UNCHANGED everythingButOcr
  /\ ocr' = IF ocr.tesseractWorker # 0
            THEN [ocr EXCEPT !.cleanup = "terminating",
                             !.terminated = @ \cup {ocr.tesseractWorker},
                             !.created = 0]
            ELSE [ocr EXCEPT !.created = 0]

\* cleanup resumes from terminate() and clears the field
terminateReturn ==
  /\ ocr.cleanup = "terminating"
  /\ UNCHANGED everythingButOcr
  /\ ocr' = [ocr EXCEPT !.cleanup = "idle", !.tesseractWorker = 0]

(***************************************************************************)
(* Inputs and specifications                                               *)
(***************************************************************************)
\* the i-th file of a batch is named f<i>
FileName(i) == <<"f", DigitChar[i]>>

\* the batches of at most n files whose types and sizes are drawn from the given sets
Batches(types, sizes, n) ==
  UNION { { [i \in 1..k |-> [name |-> FileName(i), type |-> p[i][1], size |-> p[i][2]]]
            : p \in [1..k -> types \X sizes] } : k \in 0..n }

\* the state with the given result lists on display
Database(rs, ua, next) ==
  /\ extractions = rs
  /\ user_analytics = ua
  /\ nextId = next
  /\ uploads = 0
  /\ resp = NoResp
  /\ enhCall = EnhCall("none", <<>>, NoNet, [enhancedText |-> <<>>, confidence |-> 0])
  /\ aggLog = [updates |-> 0, text |-> 0]
  /\ lastCall = [fn |-> "none"]
  /\ ocr = NoWorker

Tabs(shown) ==
  /\ rev \in [Sessions -> Revs]
  /\ pc = [s \in Sessions |-> "idle"]
  /\ submitted = [s \in Sessions |-> <<>>]
  /\ queue = [s \in Sessions |-> <<>>]
  /\ cur = [s \in Sessions |-> NoFile]
  /\ loc = [s \in Sessions |-> NoLoc]
  /\ newResults = [s \in Sessions |-> <<>>]
  /\ results = shown
  /\ loading = [s \in Sessions |-> FALSE]
  /\ toasts = [s \in Sessions |-> <<>>]
  /\ rows = [s \in Sessions |-> Render(<<>>, shown[s])]

Start(shown) == Database({}, {}, 1) /\ Tabs(shown)

Init == Start([s \in Sessions |-> <<>>])

\* a tab of the extract page takes a step of its batch; the batches and the texts the
\* extraction delivers are drawn from the given sets
PageStep(s, batches, texts) ==
  \/ \E files \in batches :
       /\ Len(results[s]) < MaxResults
       /\ handleFileSelect(s, files)
  \/ \E out \in ExtractOutcomes(rev[s], cur[s], texts) : ExtractReturn(s, out)
  \/ \E out \in DbOutcomes : UploadReturn(s, out)
  \/ \E out \in DbOutcomes : InsertReturn(s, out)
  \/ \E out \in DbOutcomes : UAReadReturn(s, out)
  \/ \E out \in DbOutcomes : UAWriteReturn(s, out)

\* Spec: one tab works through batches of up to MaxBatch files
AllBatches ==
  Batches({"image/png"}, {MaxFileSize, MaxFileSize + 1}, MaxBatch)
    \cup Batches({"application/msword"}, {1}, 1)

InitOne == Init /\ rev[2] = "ai"

Next == PageStep(1, AllBatches, {<<" ">>, <<"a","b">>})

Spec == InitOne /\ [][Next]_vars

\* SpecLive: Spec, where every call the tab awaits eventually returns or throws
Returns(s) ==
  \/ \E out \in ExtractOutcomes(rev[s], cur[s], {<<" ">>, <<"a","b">>}) : ExtractReturn(s, out)
  \/ \E out \in DbOutcomes : UploadReturn(s, out)
  \/ \E out \in DbOutcomes : InsertReturn(s, out)
  \/ \E out \in DbOutcomes : UAReadReturn(s, out)
  \/ \E out \in DbOutcomes : UAWriteReturn(s, out)

SpecLive == InitOne /\ [][Next]_vars /\ WF_vars(Returns(1))

\* SpecAgg: two tabs of the revision that persists, one file at a time, and the history
\* page's delete
InitAgg == Init /\ \A s \in Sessions : rev[s] = "ai"

OneFile == Batches({"image/png"}, {1}, 1) \ {<<>>}

NextAgg ==
  \/ \E s \in Sessions : PageStep(s, OneFile, {<<"a","b">>, LongText})
  \/ \E id \in 1..MaxIds : deleteExtraction(id)

SpecAgg == InitAgg /\ [][NextAgg]_vars

\* SpecEnh: the enhance control of a result on display in one tab, and the endpoint
\* while its insert fails
\* (the displayed result is the input of handleEnhance and handleEnhanceText, so it is
\* given by InitEnh for both revisions of the page)
TheFile == [name |-> FileName(1), type |-> "image/png", size |-> 1]

InitEnh ==
  /\ Start([s \in Sessions |-> IF s = 1 THEN <<Result(TheFile, <<"a","b">>, 30)>> ELSE <<>>])
  /\ rev[2] = "ai"

EditTexts == {<<>>, <<" ">>, <<"a","b">>, <<"a","b"," ">>}

EnhNets == NetOutcomes({LongText, RefusalText})

\* a well-formed request, and the requests that differ from it in one field
GoodRequest ==
  [method |-> "POST", authorization |-> "jwt", file_data |-> <<"d">>, file_name |-> <<"a">>, file_type |-> "image/png",
   openai_api_key |-> "sk", user_id |-> TheUser, enhance_text |-> TRUE]

EnhRequests ==
  {r \in Requests :
     Cardinality({f \in DOMAIN GoodRequest : r[f] # GoodRequest[f]}) <= 1}

NextEnh ==
  \/ \E key \in ApiKeys : handleEnhance(1, 1, key)
  \/ \E net \in EnhNets : EnhanceReturn(1, 1, net)
  \/ \E text \in EditTexts : setEditedText(1, 1, text)
  \/ \E req \in EnhRequests, ext \in NetOutcomes({<<"a","b">>}), net \in EnhNets,
        ins \in {"error", "throw"} : extractTextHandler(req, ext, net, ins)

SpecEnh == InitEnh /\ [][NextEnh]_vars

(***************************************************************************)
(* The aggregate (user_analytics)                                          *)
(***************************************************************************)
AllIdle == \A s \in Sessions : pc[s] = "idle"

\* no row was ever deleted: every id handed out is still in the table
NoDeletes == Cardinality(extractions) = nextId - 1

\* the tab has not been used
Untouched(s) == pc[s] = "idle" /\ results[s] = <<>> /\ toasts[s] = <<>>

\* C1: in every reachable state the user's averageConfidence equals the arithmetic mean
\* of confidenceScore over the user's current extraction rows (0 when there are none)
C1_AverageIsMean ==
  HasAnalytics(TheUser) =>
    AnalyticsOf(TheUser).average_confidence = AvgConfidence(RowsOf(TheUser))

\* C2: once all concurrent workflows of the user have finished (and nothing was
\* deleted), totalExtractions equals the number of aggregate updates performed and
\* totalTextExtracted the sum of their text lengths: no update is lost
C2_NoLostUpdate ==
  (AllIdle /\ NoDeletes /\ aggLog.updates > 0) =>
    /\ HasAnalytics(TheUser)
    /\ AnalyticsOf(TheUser).total_extractions = aggLog.updates
    /\ AnalyticsOf(TheUser).total_text_extracted = aggLog.text

\* C3: after k >= 1 sequential successful creations by one tab, starting without an
\* aggregate, totalExtractions = totalFilesProcessed = k, totalTextExtracted is the
\* sum of the text lengths and averageConfidence the mean of the confidences
C3_SequentialCreations ==
  LET k == Cardinality(extractions)
  IN (pc[1] = "idle" /\ Untouched(2) /\ NoDeletes /\ k >= 1 /\ Len(results[1]) = k) =>
       /\ HasAnalytics(TheUser)
       /\ AnalyticsOf(TheUser).total_extractions = k
       /\ AnalyticsOf(TheUser).total_files_processed = k
       /\ AnalyticsOf(TheUser).total_text_extracted = SumLength(extractions)
       /\ AnalyticsOf(TheUser).average_confidence = AvgConfidence(extractions)

\* C4: creating one record for a user without extractions and then deleting that
\* record returns the aggregate to zero counts and a zero average
C4_RoundTrip ==
  (pc[1] = "idle" /\ Untouched(2) /\ nextId = 2 /\ extractions = {} /\ Len(results[1]) = 1
     /\ HasAnalytics(TheUser)) =>
       /\ AnalyticsOf(TheUser).total_extractions = 0
       /\ AnalyticsOf(TheUser).total_files_processed = 0
       /\ AnalyticsOf(TheUser).total_text_extracted = 0
       /\ AnalyticsOf(TheUser).average_confidence = Rat(0, 1)

(***************************************************************************)
(* Batches                                                                 *)
(***************************************************************************)
\* the batch passed handleFileSelect's validation
Accepted(files) == Len(files) > 0 /\ \A i \in 1..Len(files) : files[i].size <= MaxFileSize

\* the toast that closes the processing of one file
IsOutcome(t) == t.msg \in {"Successfully extracted text from", "Failed to process"}

IsSuccess(t) == t.kind = "success"

IsFailure(t) == t.kind = "error"

Outcomes(s) == SelectSeq(toasts[s], IsOutcome)

\* C5: when an accepted batch has finished, every file of it, a failed one included,
\* is represented by an entry of the reported results
C5_EveryFileReported ==
  \A s \in Sessions :
    (pc[s] = "idle" /\ Accepted(submitted[s])) =>
      \A i \in 1..Len(submitted[s]) :
        \E j \in 1..Len(results[s]) : results[s][j].fileName = submitted[s][i].name

\* C6: the files of a batch are processed one after the other in submission order, a
\* failing file does not stop the files after it, and the successes are listed in
\* submission order
C6_IsolationAndOrder ==
  \A s \in Sessions :
    Accepted(submitted[s]) =>
      LET o == Outcomes(s)
          ok == SelectSeq(o, IsSuccess)
      IN /\ Len(o) <= Len(submitted[s])
         /\ \A i \in 1..Len(o) : o[i].file = submitted[s][i].name
         /\ pc[s] = "idle" =>
              /\ Len(o) = Len(submitted[s])
              /\ Len(ok) <= Len(results[s])
              /\ \A i \in 1..Len(ok) : results[s][i].fileName = ok[i].file

\* a batch of three files has finished: success, failure, success
C6_Witness ==
  /\ pc[1] = "idle"
  /\ Len(submitted[1]) = 3
  /\ Len(Outcomes(1)) = 3
  /\ IsSuccess(Outcomes(1)[1]) /\ IsFailure(Outcomes(1)[2]) /\ IsSuccess(Outcomes(1)[3])
  /\ Outcomes(1)[2].cause = "extraction failed"
  /\ Len(results[1]) = 2

C8_BestEffortPersistence ==
  \A s \in Sessions : \A i \in 1..Len(toasts[s]) :
    toasts[s][i].msg = "Failed to process" =>
      toasts[s][i].cause \in {"OCR extraction failed", "extraction failed",
                              "No text could be extracted from this document"}

(***************************************************************************)
(* Enhancement properties                                                  *)
(***************************************************************************)
\* the call failed at transport level or was answered with a refusal
Degraded(call) ==
  \/ call.net.kind \in {"throw", "not_ok"}
  \/ call.net.kind = "ok" /\ isRefusalResponse(call.net.content)

C10_DegradeToOriginal ==
  (enhCall.client # "none" /\ enhCall.text # <<>> /\ enhCall.net.kind \in {"throw", "not_ok"}) =>
    enhCall.result = [enhancedText |-> enhCall.text, confidence |-> 70]

\* the page's client was called with a non-empty text, its fetch threw, and the row's
\* enhance action has ended
C10_Witness ==
  /\ enhCall.client = "page"
  /\ enhCall.text = <<"a","b">>
  /\ enhCall.net.kind = "throw"
  /\ enhCall.result.confidence = 70
  /\ ~rows[1][1].isEnhancing

\* SpecTrig: the triggers on a database that earlier use has left behind: the user has up
\* to MaxIds records and an aggregate that may have counted fewer of them than exist (an
\* update of a tab that had read the aggregate before other records were added replaces
\* the later counts)
TrigTexts == {<<>>, <<"a","b">>, LongText}

TrigRecords ==
  UNION { { {ExtractionRow(i, TheUser, FileName(i), t[i], 75) : i \in 1..k}
            : t \in [1..k -> TrigTexts] } : k \in 0..MaxIds }

TrigAggregates(rs) ==
  {{}} \cup
  { {[user_id |-> TheUser, total_extractions |-> c, total_files_processed |-> c,
      total_text_extracted |-> t, average_confidence |-> AvgConfidence(rs)]}
    : c \in 0..MaxIds, t \in {0, 1, 12} }

InitTrig ==
  /\ \E rs \in TrigRecords : \E ua \in TrigAggregates(rs) :
       Database(rs, ua, Cardinality(rs) + 1)
  /\ Tabs([s \in Sessions |-> <<>>])
  /\ \A s \in Sessions : rev[s] = "ai"

NextTrig ==
  \/ PageStep(1, OneFile, {<<"a","b">>})
  \/ \E id \in 1..MaxIds : deleteExtraction(id)

SpecTrig == InitTrig /\ [][NextTrig]_vars

\* SpecOcr: callers of the singleton OCR service and of its cleanup, interleaved at
\* their awaits
NextOcr ==
  \/ \E c \in Callers : callExtractTextFromImage(c)
  \/ \E c \in Callers, out \in {"ok", "throw"} : createWorkerReturn(c, out)
  \/ \E c \in Callers : recognize(c)
  \/ \E c \in Callers : recognizeReturn(c)
  \/ cleanup
  \/ terminateReturn

InitOcr == InitOne /\ rev[1] = "ocr"

SpecOcr == InitOcr /\ [][NextOcr]_vars

\* SpecFn: one call of a service function on inputs drawn from bounded sets
everythingButLastCall ==
  <<extractions, user_analytics, nextId, uploads, resp, enhCall, aggLog, ocr, pageVars>>

FnKeys == {<<>>, <<" ">>, <<"s","k">>}

DocxType == "application/vnd.openxmlformats-officedocument.wordprocessingml.document"

FileTypes == {"application/pdf", "image/png", "image/jpeg", "text/plain", "application/msword", DocxType}

\* n words w separated by single spaces
WordsText(n) == [i \in 1..(2 * n - 1) |-> IF i % 2 = 1 THEN "w" ELSE " "]

HeuristicBases ==
  {<<>>, WordsText(3), WordsText(5), WordsText(20), WordsText(21), WordsText(20) \o <<" ">>,
   WordsText(50), WordsText(51)}

HeuristicSuffixes ==
  {<<>>, <<".">>, <<"7">>, <<":">>, <<".","7">>, <<"#","#","#","#","#">>,
   <<"#","#","#","#","#","#">>, <<"_","_","_","_","_","_">>,
   <<".","7","#","#","#","#","#","#">>, <<"!","7","-","#","#","#","#","#">>}

HeuristicTexts == {b \o x : b \in HeuristicBases, x \in HeuristicSuffixes}

FnTexts == {<<>>, <<" ">>, LongText, RefusalText}

CallExtractTextFromImage(key, net) ==
  /\ lastCall.fn = "none"
  /\ UNCHANGED everythingButLastCall
  /\ lastCall' =
       [fn |-> "extractTextFromImage", key |-> key, net |-> net,
        result |-> extractTextFromImage(key, net)]

CallExtractTextFromDocument(key, fileType, net, retry) ==
  /\ lastCall.fn = "none"
  /\ UNCHANGED everythingButLastCall
  /\ lastCall' =
       [fn |-> "extractTextFromDocument", key |-> key, fileType |-> fileType, net |-> net,
        retry |-> retry, result |-> extractTextFromDocument(key, fileType, net, retry)]

CallCalculateConfidence(text) ==
  /\ lastCall.fn = "none"
  /\ UNCHANGED everythingButLastCall
  /\ lastCall' =
       [fn |-> "calculateConfidence", text |-> text, result |-> calculateConfidence(text)]

CallCalculateDocumentConfidence(text, fileType) ==
  /\ lastCall.fn = "none"
  /\ UNCHANGED everythingButLastCall
  /\ lastCall' =
       [fn |-> "calculateDocumentConfidence", text |-> text, fileType |-> fileType,
        result |-> calculateDocumentConfidence(text, fileType)]

CallOcrExtractTextFromDocument(type, pdf, engine, read) ==
  /\ lastCall.fn = "none"
  /\ UNCHANGED everythingButLastCall
  /\ lastCall' =
       [fn |-> "OCRService.extractTextFromDocument", type |-> type, pdf |-> pdf,
        engine |-> engine, read |-> read,
        result |-> ocrExtractTextFromDocument(type, pdf, engine, read)]

\* texts with each marker in some case, and texts that only come close to one
RefusalProbes ==
  { <<>>,
    <<"I","'","m"," ","s","o","r","r","y",","," ","I"," ","c","a","n","n","o","t"," ","p","r","o","c","e","s","s"," ","t","h","i","s">>,
    <<"T","o","t","a","l",":"," ","$","4","2",".","0","0",","," ","I","t","e","m","s",":"," ","3">>,
    <<"U","N","A","B","L","E">>,
    <<"B","a","s","e","6","4"," ","d","a","t","a">>,
    <<"A","s"," ","a","n"," ","A","I">>,
    <<"I"," ","C","A","N","'","T">>,
    <<"N","o","t"," ","A","b","l","e">>,
    <<"a"," ","D","E","C","O","D","E","R">>,
    <<"n","o","t","a","b","l","e">>,
    <<"d","e","c","o","d","e">>,
    <<"c","a","n"," ","t">>,
    <<"a","s"," ","a"," ","a","i">>,
    <<"S","o","r","r","y">>,
    <<"c","a","n","n","o","t">> }

CallIsRefusalResponse(text) ==
  /\ lastCall.fn = "none"
  /\ UNCHANGED everythingButLastCall
  /\ lastCall' = [fn |-> "isRefusalResponse", text |-> text, result |-> isRefusalResponse(text)]

\* confidences on and next to the edges of the buckets
BucketConfidences == {0, 59, 60, 79, 80, 100}

\* the record sets of a user with up to three records
BucketRows ==
  UNION { { {ExtractionRow(i, TheUser, FileName(i), <<"a">>, c[i]) : i \in 1..k}
            : c \in [1..k -> BucketConfidences] } : k \in 0..3 }

CallAnalyticsData(rs) ==
  /\ lastCall.fn = "none"
  /\ UNCHANGED everythingButLastCall
  /\ lastCall' = [fn |-> "get-analytics data", rows |-> rs,
                  result |-> AnalyticsData(NoAnalytics, rs)]

\* texts handed to the enhancement: blank, plain, and one that holds a marker itself
EnhanceInputs == {<<>>, <<" ">>, <<"a","b">>, <<"w","e"," ","c","a","n","n","o","t">>}

CallEnhanceExtractedText(text, net) ==
  /\ lastCall.fn = "none"
  /\ UNCHANGED everythingButLastCall
  /\ lastCall' = [fn |-> "enhanceExtractedText", text |-> text, net |-> net,
                  result |-> enhanceExtractedText(text, net)]

OcrEngine == EngineOutcomes({<<>>, <<"a","b">>}, {0, 85, 100})

\* documents of up to two pages
OcrPdfs ==
  {[kind |-> "throw"]}
    \cup {[kind |-> "ok", pages |-> p] : p \in UNION {[1..n -> OcrEngine] : n \in 0..2}}

OcrReads == {[kind |-> "throw"]} \cup {[kind |-> "ok", text |-> t] : t \in {<<>>, <<"a","b">>}}

NextFn ==
  \/ \E key \in FnKeys, net \in NetOutcomes(FnTexts) : CallExtractTextFromImage(key, net)
  \/ \E key \in FnKeys, fileType \in FileTypes, net \in NetOutcomes(FnTexts),
        retry \in NetOutcomes(FnTexts) : CallExtractTextFromDocument(key, fileType, net, retry)
  \/ \E text \in HeuristicTexts : CallCalculateConfidence(text)
  \/ \E text \in RefusalProbes : CallIsRefusalResponse(text)
  \/ \E rs \in BucketRows : CallAnalyticsData(rs)
  \/ \E text \in EnhanceInputs, net \in NetOutcomes(FnTexts) :
       CallEnhanceExtractedText(text, net)
  \/ \E text \in HeuristicTexts, fileType \in FileTypes :
       CallCalculateDocumentConfidence(text, fileType)
  \/ \E type \in FileTypes, pdf \in OcrPdfs, engine \in OcrEngine, read \in OcrReads :
       CallOcrExtractTextFromDocument(type, pdf, engine, read)

InitFn == InitOne /\ rev[1] = "ocr"

SpecFn == InitFn /\ [][NextFn]_vars

\* the function raised instead of returning a result
Raised(result) == "error" \in DOMAIN result

\* C11: the enhancement client called with a text that is empty or only white space
\* fails with a validation error that reaches its caller, and makes no network call
C11_ValidationError ==
  (enhCall.client = "page" /\ Trim(enhCall.text) = <<>>) =>
    Raised(enhCall.result) /\ enhCall.net = NoNet

\* SpecApi: the three endpoints, next to one tab of the page that persists
\* a well-formed query, and the queries that differ from it in one field
GoodQuery ==
  [method |-> "GET", authorization |-> "jwt", user_id |-> TheUser, malformed |-> FALSE]

ApiQueries ==
  {r \in QueryRequests :
     Cardinality({f \in DOMAIN GoodQuery : r[f] # GoodQuery[f]}) <= 1}

ApiNets == {[kind |-> "throw"], [kind |-> "ok", content |-> LongText]}

NextApi ==
  \/ PageStep(1, OneFile, {LongText})
  \/ \E req \in EnhRequests, ext \in ApiNets, net \in ApiNets, ins \in {"ok", "error"} :
       extractTextHandler(req, ext, net, ins)
  \/ \E req \in ApiQueries, q \in DbOutcomes : getExtractionsHandler(req, q)
  \/ \E req \in ApiQueries, ua \in {"ok", "error"}, q \in DbOutcomes :
       getAnalyticsHandler(req, ua, q)

InitApi == Init /\ \A s \in Sessions : rev[s] = "ai"

SpecApi == InitApi /\ [][NextApi]_vars

(***************************************************************************)
(* Properties of the service functions                                     *)
(***************************************************************************)
IsBlank(t) == \A i \in 1..Len(t) : t[i] \in {" ", "\n", "\t"}

\* C12: extractTextFromDocument never returns a success whose text did not come from
\* the service: when the final text is empty after all attempts (also after a refusal
\* and a retry without content) it fails
C12_TextFromService ==
  (lastCall.fn = "extractTextFromDocument" /\ lastCall.result.kind = "ok") =>
    /\ ~IsBlank(lastCall.result.text)
    /\ \/ lastCall.net.kind = "ok" /\ lastCall.result.text = lastCall.net.content
       \/ /\ lastCall.result.fetches = 2
          /\ lastCall.retry.kind = "ok" /\ lastCall.result.text = lastCall.retry.content

\* C13: with an API key that is empty or only white space, extractTextFromImage and
\* extractTextFromDocument fail with the configuration error before any request is issued
C13_KeyRequired ==
  (lastCall.fn \in {"extractTextFromImage", "extractTextFromDocument"} /\ IsBlank(lastCall.key)) =>
    /\ lastCall.result.kind = "throw"
    /\ lastCall.result.error = "OpenAI API key is not configured"
    /\ lastCall.result.fetches = 0

\* extractTextFromDocument was called with a key of one space while its service answers
C13_Witness ==
  /\ lastCall.fn = "extractTextFromDocument"
  /\ lastCall.key = <<" ">>
  /\ lastCall.net.kind = "ok"
  /\ lastCall.result.kind = "throw"

C19_ShortText ==
  (lastCall.fn \in {"calculateConfidence", "calculateDocumentConfidence"}
     /\ Len(lastCall.text) < 10) => lastCall.result = 30

\* the document heuristic was applied to a short text of a PDF that has every feature
C19_Witness ==
  /\ lastCall.fn = "calculateDocumentConfidence"
  /\ lastCall.fileType = "application/pdf"
  /\ lastCall.text = <<".","7","#","#","#","#","#","#">>
  /\ lastCall.result = 30

\* number of words: maximal runs of characters that are not white space
Words(t) == Cardinality({i \in 1..Len(t) : ~IsSpace(t[i]) /\ (i = 1 \/ IsSpace(t[i - 1]))})

IsAlphanumeric(c) == c \in Digits \/ \E i \in 1..26 : c = UpperCase[i] \/ c = LowerCase[i]

\* C20: for a text of at least 10 characters the image-path heuristic returns
\* min(0.5 + 0.2 [more than 20 words] + 0.15 [has . ! or ?] + 0.1 [has a digit]
\*     + 0.05 [more than 5 characters that are neither alphanumeric nor space], 0.98)
C20_ImageHeuristic ==
  (lastCall.fn = "calculateConfidence" /\ Len(lastCall.text) >= 10) =>
    LET t == lastCall.text
        special == Cardinality({i \in 1..Len(t) : ~IsAlphanumeric(t[i]) /\ ~IsSpace(t[i])})
    IN lastCall.result =
         Min(50 + (IF Words(t) > 20 THEN 20 ELSE 0)
                + (IF \E i \in 1..Len(t) : t[i] \in {".", "!", "?"} THEN 15 ELSE 0)
                + (IF \E i \in 1..Len(t) : t[i] \in Digits THEN 10 ELSE 0)
                + (IF special > 5 THEN 5 ELSE 0), 98)

(***************************************************************************)
(* Properties of the persisted records                                     *)
(***************************************************************************)
\* C14: no persisted extraction record has an extracted text that is empty or only
\* white space: a file whose extracted text is blank fails and persists nothing
C14_NoBlankRecord == \A r \in extractions : ~IsBlank(r.extracted_text)

Endpoints == {"extract-text", "get-extractions", "get-analytics"}

IsQuery == lastCall.fn \in {"get-extractions", "get-analytics"}

MethodAllowed ==
  lastCall.req.method \in (IF IsQuery THEN {"OPTIONS", "GET", "POST"} ELSE {"OPTIONS", "POST"})

FieldsMissing ==
  IF IsQuery
  THEN lastCall.req.user_id = ""
  ELSE lastCall.req.file_data = <<>> \/ lastCall.req.file_name = <<>>
         \/ lastCall.req.file_type = ""

C17_Unauthorized ==
  (lastCall.fn \in Endpoints /\ lastCall.req.method # "OPTIONS"
     /\ lastCall.req.authorization = "") =>
    resp.status = 401 /\ "data" \notin DOMAIN resp

(***************************************************************************)
(* The refusal detector and the retry                                      *)
(***************************************************************************)
RefusalMarkers ==
  { <<"s","o","r","r","y">>,
    <<"c","a","n","n","o","t">>,
    <<"u","n","a","b","l","e">>,
    <<"n","o","t"," ","a","b","l","e">>,
    <<"c","a","n","'","t">>,
    <<"b","a","s","e","6","4">>,
    <<"d","e","c","o","d","e","r">>,
    <<"a","s"," ","a","n"," ","a","i">>,
    <<"i","'","m"," ","s","o","r","r","y">> }

\* marker m stands in text t at position i, letters compared without regard to case
MarkerAt(t, m, i) ==
  /\ i + Len(m) - 1 <= Len(t)
  /\ \A j \in 1..Len(m) : Lower(t[i + j - 1]) = m[j]

\* C21: the refusal detector returns true exactly when the lower-cased text contains one
\* of the fixed markers as a substring; true for "I'm sorry, I cannot process this",
\* false for "Total: $42.00, Items: 3"
C21_RefusalDetector ==
  lastCall.fn = "isRefusalResponse" =>
    /\ lastCall.result <=>
         \E m \in RefusalMarkers : \E i \in 1..Len(lastCall.text) : MarkerAt(lastCall.text, m, i)
    /\ lastCall.text = <<"I","'","m"," ","s","o","r","r","y",","," ","I"," ","c","a","n","n","o","t"," ","p","r","o","c","e","s","s"," ","t","h","i","s">> => lastCall.result
    /\ lastCall.text = <<"T","o","t","a","l",":"," ","$","4","2",".","0","0",","," ","I","t","e","m","s",":"," ","3">> => ~lastCall.result

\* the detector has found a marker that the text spells in capitals
C21_Witness ==
  /\ lastCall.fn = "isRefusalResponse"
  /\ lastCall.text = <<"U","N","A","B","L","E">>
  /\ lastCall.result

\* a marker stands somewhere in t
HasMarker(t) == \E m \in RefusalMarkers : \E i \in 1..Len(t) : MarkerAt(t, m, i)

\* C24: extractTextFromDocument issues at most two service calls: exactly one retry when
\* the first response is detected as a refusal and none otherwise; what the retry returns
\* is returned with confidence 0.7 and is not retried, even if it is a refusal itself
C24_OneRetry ==
  lastCall.fn = "extractTextFromDocument" =>
    LET r == lastCall.result
        refused == /\ ~IsBlank(lastCall.key)
                   /\ lastCall.net.kind = "ok"
                   /\ HasMarker(lastCall.net.content)
    IN /\ r.fetches <= 2
       /\ r.fetches = 2 <=> refused
       /\ (refused /\ lastCall.retry.kind = "ok") => r.kind = "ok" /\ r.confidence = 70
       /\ (refused /\ lastCall.retry.kind = "ok" /\ lastCall.retry.content # <<>>) =>
            r.text = lastCall.retry.content

\* the first response and the retry's response were both refusals
C24_Witness ==
  /\ lastCall.fn = "extractTextFromDocument"
  /\ lastCall.net.kind = "ok" /\ lastCall.net.content = RefusalText
  /\ lastCall.retry.kind = "ok" /\ lastCall.retry.content = RefusalText
  /\ lastCall.result.kind = "ok"
  /\ lastCall.result.text = RefusalText
  /\ lastCall.result.fetches = 2

\* C25: when the enhancement service answers successfully, enhanceExtractedText returns
\* the original text with confidence 0.8 if the returned text is detected as a refusal,
\* and the returned text with confidence 0.95 if it is not
C25_RefusalOrEnhanced ==
  (lastCall.fn = "enhanceExtractedText" /\ ~IsBlank(lastCall.text)
     /\ lastCall.net.kind = "ok") =>
    lastCall.result =
      IF HasMarker(lastCall.net.content)
      THEN [enhancedText |-> lastCall.text, confidence |-> 80]
      ELSE [enhancedText |-> lastCall.net.content, confidence |-> 95]

(***************************************************************************)
(* The analytics result                                                    *)
(***************************************************************************)
\* C22: in the analytics result every extraction is counted in exactly one of the three
\* confidence buckets (High from 80 %, Medium from 60 % to below 80 %, Low below 60 %), so
\* the buckets sum to the number of extractions; daily_extractions has exactly 7 entries
C22_Buckets ==
  lastCall.fn = "get-analytics data" =>
    LET d == lastCall.result.confidence_distribution
        InHigh(r) == r.confidence_score >= 80
        InMedium(r) == r.confidence_score >= 60 /\ r.confidence_score <= 79
        InLow(r) == r.confidence_score <= 59
    IN /\ d.high = Cardinality({r \in lastCall.rows : InHigh(r)})
       /\ d.medium = Cardinality({r \in lastCall.rows : InMedium(r)})
       /\ d.low = Cardinality({r \in lastCall.rows : InLow(r)})
       /\ d.high + d.medium + d.low = Cardinality(lastCall.rows)
       /\ Len(lastCall.result.daily_extractions) = 7

\* three records on the lower edges of High and Medium and just below Medium
C22_Witness ==
  /\ lastCall.fn = "get-analytics data"
  /\ {r.confidence_score : r \in lastCall.rows} = {59, 60, 80}
  /\ lastCall.result.confidence_distribution = [high |-> 1, medium |-> 1, low |-> 1]

(***************************************************************************)
(* The workflow of a file and of a batch                                   *)
(***************************************************************************)
\* C23: the aggregate update for a file runs only after that file's record was
\* persisted: as long as no record insert of the user has succeeded (every insert so far
\* returned an error), the user's aggregate is unchanged, that is, still absent
C23_AggregateAfterInsert ==
  (nextId = 1 /\ extractions = {}) => user_analytics = {}

\* C27: within a batch at most one file is being processed at any time: while the k-th
\* file of the batch is in one of its steps (extraction, upload, insert, aggregate
\* update), each of the k - 1 files before it has ended in its outcome, in order, and no
\* later file has been taken up
C27_OneFileAtATime ==
  \A s \in Sessions :
    pc[s] # "idle" =>
      LET k == Len(submitted[s]) - Len(queue[s])
      IN /\ k \in 1..Len(submitted[s])
         /\ cur[s] = submitted[s][k]
         /\ queue[s] = SubSeq(submitted[s], k + 1, Len(submitted[s]))
         /\ Len(Outcomes(s)) = k - 1
         /\ \A i \in 1..(k - 1) : Outcomes(s)[i].file = submitted[s][i].name

\* the second file of a batch is at its insert, the first has succeeded
C27_Witness ==
  /\ pc[1] = "insert"
  /\ Len(submitted[1]) >= 2
  /\ cur[1] = submitted[1][2]
  /\ Len(Outcomes(1)) = 1
  /\ Outcomes(1)[1].kind = "success"

\* C29: provided every external call eventually returns or throws, every accepted batch
\* eventually finishes: loading, set at the start of handleFileSelect, is eventually
\* reset whatever the files' outcomes are; and while it is set no second batch is
\* started: the batch stays the one submitted, its queue only shrinks and its
\* notifications are only added to
C29_BatchFinishes ==
  /\ \A s \in {1} : loading[s] ~> ~loading[s]
  /\ [][\A s \in Sessions :
          loading[s] =>
            /\ submitted'[s] = submitted[s]
            /\ Len(queue'[s]) <= Len(queue[s])
            /\ Len(toasts'[s]) >= Len(toasts[s])]_vars

\* a batch of a success and a failure has finished
C29_Witness ==
  /\ pc[1] = "idle"
  /\ ~loading[1]
  /\ Len(submitted[1]) >= 2
  /\ \E i, j \in 1..Len(Outcomes(1)) : IsSuccess(Outcomes(1)[i]) /\ IsFailure(Outcomes(1)[j])

(***************************************************************************)
(* The counters of the aggregate                                           *)
(***************************************************************************)
Floored(n) == IF n < 0 THEN 0 ELSE n

\* the step deletes record old of the user
Deletes(old) ==
  /\ old \in extractions
  /\ extractions' = extractions \ {old}
  /\ UNCHANGED pageVars

\* C28: in every reachable state a user's totalExtractions equals the number of the
\* user's extraction records that exist, and equals totalFilesProcessed: one successful
\* extraction raises totalExtractions by exactly 1
C28_CountsRecords ==
  HasAnalytics(TheUser) =>
    /\ AnalyticsOf(TheUser).total_extractions = Cardinality(RowsOf(TheUser))
    /\ AnalyticsOf(TheUser).total_extractions = AnalyticsOf(TheUser).total_files_processed

\* C26: totalExtractions, totalFilesProcessed and totalTextExtracted are never negative,
\* also when more records are deleted than the aggregate has counted: each delete
\* lowers the two counters by 1 and totalTextExtracted by the length of the deleted
\* text, stopping at 0
C26_CountersFloored ==
  /\ [](\A a \in user_analytics :
          a.total_extractions >= 0 /\ a.total_files_processed >= 0
            /\ a.total_text_extracted >= 0)
  /\ [][\A old \in extractions : (Deletes(old) /\ HasAnalytics(old.user_id)) =>
          LET a == AnalyticsOf(old.user_id)
              b == CHOOSE x \in user_analytics' : x.user_id = old.user_id
          IN /\ b.total_extractions = Floored(a.total_extractions - 1)
             /\ b.total_files_processed = Floored(a.total_files_processed - 1)
             /\ b.total_text_extracted =
                  Floored(a.total_text_extracted - Len(old.extracted_text))]_vars

\* every record the database started with was deleted, and the counters stand at 0
C26_Witness ==
  /\ extractions = {}
  /\ nextId = MaxIds + 1
  /\ HasAnalytics(TheUser)
  /\ AnalyticsOf(TheUser).total_extractions = 0
  /\ AnalyticsOf(TheUser).total_text_extracted = 0
  /\ pc[1] = "idle" /\ results[1] = <<>>

(***************************************************************************)
(* The worker of the OCR service                                           *)
(***************************************************************************)
\* C30: for any interleaving of concurrent callers of the singleton OCR service, at most
\* one worker is created between two calls of cleanup(), and recognize is never called
\* on a worker that cleanup() has terminated
C30_OneWorker ==
  /\ ocr.created <= 1
  /\ ~ocr.onTerminated

====
